---- MODULE Spec2Model ----
(***************************************************************************)
(* A model of the widgets Block, BarChart and Sparkline of tui-rs          *)
(* (src/widgets/block.rs, barchart.rs, sparkline.rs).                      *)
(*                                                                         *)
(* The state is one widget instance (its fields), the grid handed to the   *)
(* most recent render call, the calls that render made on the grid, and a  *)
(* record of that call.  Rect, Buffer, Borders and symbols::bar::Set are   *)
(* collaborators whose code is outside the three files; they are modelled  *)
(* from their described interface.                                         *)
(***************************************************************************)
EXTENDS Integers, Sequences, FiniteSets, TLC

VARIABLES widget, buf, calls, last, paints

vars == <<widget, buf, calls, last, paints>>

(***************************************************************************)
(* Bounds of the model.                                                    *)
(***************************************************************************)
\* Areas handed to render have their origin in 0..MaxOrigin (both axes)
MaxOrigin == 1
\* ... a width in 0..MaxWidth and a height in 0..MaxHeight.
MaxWidth == 4
MaxHeight == 3
\* bar_width ranges over 0..MaxBarWidth, bar_gap over 0..MaxBarGap.
MaxBarWidth == 2
MaxBarGap == 1
\* Data slices hold at most MaxLen entries.
MaxLen == 2
\* Rectangles handed to inner() have their origin at 0 or within MaxEdge of
\* u16::MAX and their sides in 0..MaxEdge+1 or equal to u16::MAX.
MaxEdge == 1

\* u16::MAX
U16Max == 65535

(***************************************************************************)
(* Integer helpers (u16 arithmetic of the standard library).               *)
(***************************************************************************)
Min(a, b) == IF a <= b THEN a ELSE b

Max(a, b) == IF a >= b THEN a ELSE b

saturating_add(a, b) == Min(a + b, U16Max)

saturating_sub(a, b) == Max(a - b, 0)

\* Option<T>
None == [tag |-> "None"]

Some(v) == [tag |-> "Some", v |-> v]

is_some(o) == o.tag = "Some"

(***************************************************************************)
(* layout::Rect                                                            *)
(***************************************************************************)
Rect(x, y, width, height) == [x |-> x, y |-> y, width |-> width, height |-> height]

left(r) == r.x

top(r) == r.y

right(r) == saturating_add(r.x, r.width)

bottom(r) == saturating_add(r.y, r.height)

area(r) == r.width * r.height

(***************************************************************************)
(* widgets::Borders and Block                                              *)
(***************************************************************************)
LEFT == "LEFT"

RIGHT == "RIGHT"

TOP == "TOP"

BOTTOM == "BOTTOM"

ALL == {LEFT, RIGHT, TOP, BOTTOM}

\* Borders::intersects(flag) for a single flag
intersects(borders, flag) == flag \in borders

\* Borders::contains(flags)
contains(borders, flags) == flags \subseteq borders

\* Block { title, borders } (styles and border_type select colours and the
\* glyph table only)
Block(title, borders) == [title |-> title, borders |-> borders]

\* Block::default()
BlockDefault == Block(None, {})

\* Block::inner, the LEFT step
inner_left_noclamp(b, inner) ==
    IF intersects(b.borders, LEFT)
    THEN [inner EXCEPT !.x = saturating_add(inner.x, 1),
                       !.width = saturating_sub(inner.width, 1)]
    ELSE inner

inner_left(b, inner) ==
    IF intersects(b.borders, LEFT)
    THEN [inner EXCEPT !.x = Min(saturating_add(inner.x, 1), right(inner)),
                       !.width = saturating_sub(inner.width, 1)]
    ELSE inner

\* Block::inner, the TOP-or-title step
inner_top_borderonly(b, inner) ==
    IF intersects(b.borders, TOP)
    THEN [inner EXCEPT !.y = Min(saturating_add(inner.y, 1), bottom(inner)),
                       !.height = saturating_sub(inner.height, 1)]
    ELSE inner

inner_top(b, inner) ==
    IF intersects(b.borders, TOP) \/ is_some(b.title)
    THEN [inner EXCEPT !.y = Min(saturating_add(inner.y, 1), bottom(inner)),
                       !.height = saturating_sub(inner.height, 1)]
    ELSE inner

\* Block::inner, the RIGHT step
inner_right(b, inner) ==
    IF intersects(b.borders, RIGHT)
    THEN [inner EXCEPT !.width = saturating_sub(inner.width, 1)]
    ELSE inner

\* Block::inner, the BOTTOM step
inner_bottom(b, inner) ==
    IF intersects(b.borders, BOTTOM)
    THEN [inner EXCEPT !.height = saturating_sub(inner.height, 1)]
    ELSE inner

\* Block::inner
inner(b, a) == inner_bottom(b, inner_right(b, inner_top(b, inner_left(b, a))))

(***************************************************************************)
(* buffer::Buffer: the grid.  A render call is modelled by the sequence of *)
(* calls it makes on the grid; the grid's content is what those calls      *)
(* leave behind.                                                           *)
(***************************************************************************)
Grid == (0 .. MaxOrigin + MaxWidth - 1) \X (0 .. MaxOrigin + MaxHeight - 1)

\* The symbol of a cell of Buffer::empty
Blank == " "

\* buf.set_style(area, style)
set_style(who, a) ==
    [op |-> "set_style", who |-> who, what |-> "style", x |-> a.x, y |-> a.y,
     width |-> a.width, height |-> a.height, text |-> <<>>, bar |-> 0]

\* buf.get_mut(x, y).set_symbol(symbol).set_style(style)
get_mut(who, what, x, y, symbol, bar) ==
    [op |-> "get_mut", who |-> who, what |-> what, x |-> x, y |-> y,
     width |-> 1, height |-> 1, text |-> <<symbol>>, bar |-> bar]

\* buf.set_stringn(x, y, string, width, style)
set_stringn(who, what, x, y, string, width, bar) ==
    [op |-> "set_stringn", who |-> who, what |-> what, x |-> x, y |-> y,
     width |-> width, height |-> 1, text |-> string, bar |-> bar]

\* buf.set_string(x, y, string, style): set_stringn without a width limit
\* (the limit is then the grid's own right edge)
set_string(who, what, x, y, string, bar) ==
    [op |-> "set_string", who |-> who, what |-> what, x |-> x, y |-> y,
     width |-> U16Max, height |-> 1, text |-> string, bar |-> bar]

\* buf.set_spans(x, y, spans, width)
set_spans(who, what, x, y, spans, width) ==
    [op |-> "set_spans", who |-> who, what |-> what, x |-> x, y |-> y,
     width |-> width, height |-> 1, text |-> spans, bar |-> 0]

\* The cells whose symbol a call sets
CellsOf(c) ==
    IF c.op = "get_mut" THEN {<<c.x, c.y>>} \cap Grid
    ELSE IF c.op = "set_style" THEN {}
    ELSE {<<c.x + k - 1, c.y>> : k \in 1 .. Min(Len(c.text), c.width)} \cap Grid

\* The symbol a call sets in one of its cells
SymbolAt(c, cell) == c.text[cell[1] - c.x + 1]

\* get_mut indexes the grid and faults outside of it
OutOfGrid(c) == c.op = "get_mut" /\ <<c.x, c.y>> \notin Grid

MaxOf(S) == CHOOSE m \in S : \A n \in S : n <= m

\* The grid after the calls cs on an empty grid: the last write to a cell wins
BufferAfter(cs) ==
    [cell \in Grid |->
        LET ks == {k \in 1 .. Len(cs) : cell \in CellsOf(cs[k])}
        IN  IF ks = {} THEN Blank ELSE SymbolAt(cs[MaxOf(ks)], cell)]

(***************************************************************************)
(* Block::render                                                           *)
(***************************************************************************)
\* symbols::line::Set: the members Block::render uses
vertical == "vertical"

horizontal == "horizontal"

top_left == "top_left"

top_right == "top_right"

bottom_left == "bottom_left"

bottom_right == "bottom_right"

\* The cell writes of one side: get_mut(x0 + k*dx, y0 + k*dy) for k in 0..n-1
Side(what, x0, y0, dx, dy, n, symbol) ==
    [k \in 1 .. n |->
        get_mut("Block", what, x0 + (k - 1) * dx, y0 + (k - 1) * dy, symbol, 0)]

\* "Sides"
render_sides(b, a) ==
    (IF intersects(b.borders, LEFT)
     THEN Side(LEFT, left(a), top(a), 0, 1, bottom(a) - top(a), vertical)
     ELSE <<>>)
    \o
    (IF intersects(b.borders, TOP)
     THEN Side(TOP, left(a), top(a), 1, 0, right(a) - left(a), horizontal)
     ELSE <<>>)
    \o
    (IF intersects(b.borders, RIGHT)
     THEN Side(RIGHT, right(a) - 1, top(a), 0, 1, bottom(a) - top(a), vertical)
     ELSE <<>>)
    \o
    (IF intersects(b.borders, BOTTOM)
     THEN Side(BOTTOM, left(a), bottom(a) - 1, 1, 0, right(a) - left(a), horizontal)
     ELSE <<>>)

\* "Corners", with a bug: a corner is painted when either of its edges is set
render_corners_either(b, a) ==
    (IF intersects(b.borders, RIGHT) \/ intersects(b.borders, BOTTOM)
     THEN <<get_mut("Block", "corner", right(a) - 1, bottom(a) - 1, bottom_right, 0)>>
     ELSE <<>>)
    \o
    (IF intersects(b.borders, RIGHT) \/ intersects(b.borders, TOP)
     THEN <<get_mut("Block", "corner", right(a) - 1, top(a), top_right, 0)>>
     ELSE <<>>)
    \o
    (IF intersects(b.borders, LEFT) \/ intersects(b.borders, BOTTOM)
     THEN <<get_mut("Block", "corner", left(a), bottom(a) - 1, bottom_left, 0)>>
     ELSE <<>>)
    \o
    (IF intersects(b.borders, LEFT) \/ intersects(b.borders, TOP)
     THEN <<get_mut("Block", "corner", left(a), top(a), top_left, 0)>>
     ELSE <<>>)

\* "Corners"
render_corners(b, a) ==
    (IF contains(b.borders, {RIGHT, BOTTOM})
     THEN <<get_mut("Block", "corner", right(a) - 1, bottom(a) - 1, bottom_right, 0)>>
     ELSE <<>>)
    \o
    (IF contains(b.borders, {RIGHT, TOP})
     THEN <<get_mut("Block", "corner", right(a) - 1, top(a), top_right, 0)>>
     ELSE <<>>)
    \o
    (IF contains(b.borders, {LEFT, BOTTOM})
     THEN <<get_mut("Block", "corner", left(a), bottom(a) - 1, bottom_left, 0)>>
     ELSE <<>>)
    \o
    (IF contains(b.borders, {LEFT, TOP})
     THEN <<get_mut("Block", "corner", left(a), top(a), top_left, 0)>>
     ELSE <<>>)

\* The title
render_title(b, a) ==
    IF is_some(b.title)
    THEN LET lx == IF intersects(b.borders, LEFT) THEN 1 ELSE 0
             rx == IF intersects(b.borders, RIGHT) THEN 1 ELSE 0
             width == saturating_sub(saturating_sub(a.width, lx), rx)
         IN  <<set_spans("Block", "title", left(a) + lx, top(a), b.title.v, width)>>
    ELSE <<>>

\* Block::render: the calls it makes on the grid
Block_render(b, a) ==
    IF area(a) = 0
    THEN <<>>
    ELSE <<set_style("Block", a)>> \o render_sides(b, a) \o render_corners(b, a)
         \o render_title(b, a)

(***************************************************************************)
(* symbols::bar::Set and the data of the charts                            *)
(***************************************************************************)
\* symbols::bar::NINE_LEVELS, from the empty glyph to the full one
NINE_LEVELS ==
    <<"empty", "one_eighth", "one_quarter", "three_eighths", "half",
      "five_eighths", "three_quarters", "seven_eighths", "full">>

\* bar::Set::symbol(level): level 0 is the empty glyph, 8 or more the full one
symbol(level) == NINE_LEVELS[Min(level, 8) + 1]

\* The fill level (in eighths) a glyph of the bar set stands for (read by the
\* properties below)
LevelOf(glyph) == CHOOSE l \in 0 .. 8 : NINE_LEVELS[l + 1] = glyph

DigitChar == <<"0", "1", "2", "3", "4", "5", "6", "7", "8", "9">>

\* format!("{}", v) of an unsigned integer: its decimal digits
RECURSIVE format(_)
format(v) ==
    IF v < 10 THEN <<DigitChar[v + 1]>>
    ELSE format(v \div 10) \o <<DigitChar[(v % 10) + 1]>>

\* UnicodeWidthStr::width of a string of ASCII characters
width(string) == Len(string)

RECURSIVE Concat(_)
Concat(ss) == IF ss = <<>> THEN <<>> ELSE Head(ss) \o Concat(Tail(ss))

\* The values of the data drawn by the model
Values == {0, 3, 10}

\* The explicit maxima drawn by the model
Maxes == {0, 5}

Entry(label, value) == [label |-> label, value |-> value]

\* (label, value) pairs of BarChart data
Entries ==
    {Entry(<<"B", "0">>, 0), Entry(<<"B", "1">>, 3), Entry(<<"B", "2">>, 10)}

BarData == UNION {[1 .. n -> Entries] : n \in 0 .. MaxLen}

SparkData == UNION {[1 .. n -> Values] : n \in 0 .. MaxLen}

\* The largest value of a slice, or dflt when it is empty
MaxValue(vs, dflt) ==
    IF vs = <<>> THEN dflt ELSE MaxOf({vs[i] : i \in 1 .. Len(vs)})

\* The steps "if d > 8 { d -= 8 } else { d = 0 }" of the painting loops
next_row_wrong(d) == IF d >= 8 THEN d - 8 ELSE d

next_row(d) == IF d > 8 THEN d - 8 ELSE 0

\* The remaining height of a bar when the r-th row from the bottom is painted
RECURSIVE Remaining(_, _)
Remaining(d, r) == IF r = 0 THEN d ELSE Remaining(next_row(d), r - 1)

(***************************************************************************)
(* BarChart                                                                *)
(***************************************************************************)
\* BarChart::default()
BarChartDefault ==
    [kind |-> "BarChart", block |-> None, max |-> None, data |-> <<>>,
     values |-> <<>>, bar_width |-> 1, bar_gap |-> 1]

\* BarChart::set_data, with a bug: the cache of formatted values is left as
\* it was
set_data_keeps(self, data) == [self EXCEPT !.data = data]

\* BarChart::set_data: the data and the cache of their formatted values
set_data(self, data) ==
    [self EXCEPT !.data = data,
                 !.values = [i \in 1 .. Len(data) |-> format(data[i].value)]]

\* The result of a render call: the calls made on the grid, the working area,
\* the number of bars or points drawn and the fault that ended the call
Rendered(cs, working, max_index, fault) ==
    [calls |-> cs, working |-> working, max_index |-> max_index, fault |-> fault]

\* "let chart_area = match self.block.take() { ... }": the working area
working_area(block, a) == IF is_some(block) THEN inner(block.v, a) ELSE a

\* ... and the calls of b.render(area, buf)
block_calls(block, a) == IF is_some(block) THEN Block_render(block.v, a) ELSE <<>>

\* "let max = self.max.unwrap_or_else(...)"
BarChart_max(self) ==
    IF is_some(self.max) THEN self.max.v
    ELSE MaxValue([i \in 1 .. Len(self.data) |-> self.data[i].value], 0)

\* "let max_index = min(chart_area.width / (bar_width + bar_gap), data.len())",
\* with a bug: every entry is drawn
BarChart_max_index_all(self, chart_area) == Len(self.data)

BarChart_max_index(self, chart_area) ==
    Min(chart_area.width \div (self.bar_width + self.bar_gap), Len(self.data))

\* The height of bar i in eighths, with a bug: Sparkline's guard "0 if max
\* is 0" in place of the divisor max(max, 1)
BarChart_scaled_guarded(self, chart_area, i) ==
    IF BarChart_max(self) # 0
    THEN (self.data[i].value * (chart_area.height - 1) * 8) \div BarChart_max(self)
    ELSE 0

\* The height of bar i in eighths
BarChart_scaled(self, chart_area, i) ==
    (self.data[i].value * (chart_area.height - 1) * 8) \div Max(BarChart_max(self), 1)

\* The painting loop, with a bug: the rows are visited from the top down, so
\* the bars hang from the top row
BarChart_bars_topdown(self, chart_area, max_index) ==
    Concat([r \in 1 .. chart_area.height - 1 |->
      LET j == r - 1
      IN  Concat([i \in 1 .. max_index |->
            [x \in 1 .. self.bar_width |->
              get_mut("BarChart", "bar",
                      left(chart_area) + (i - 1) * (self.bar_width + self.bar_gap)
                        + (x - 1),
                      top(chart_area) + j,
                      symbol(Remaining(BarChart_scaled(self, chart_area, i), r - 1)),
                      i)]])])

\* The painting loop: rows from the one above the labels up to the top
BarChart_bars(self, chart_area, max_index) ==
    Concat([r \in 1 .. chart_area.height - 1 |->
      LET j == chart_area.height - 1 - r
      IN  Concat([i \in 1 .. max_index |->
            [x \in 1 .. self.bar_width |->
              get_mut("BarChart", "bar",
                      left(chart_area) + (i - 1) * (self.bar_width + self.bar_gap)
                        + (x - 1),
                      top(chart_area) + j,
                      symbol(Remaining(BarChart_scaled(self, chart_area, i), r - 1)),
                      i)]])])

\* The value of bar i, with a bug: written whenever it fits exactly as well
BarChart_value_fits(self, chart_area, i) ==
    IF self.data[i].value # 0 /\ width(self.values[i]) <= self.bar_width
    THEN <<set_string("BarChart", "value",
              left(chart_area) + (i - 1) * (self.bar_width + self.bar_gap)
                + (self.bar_width - width(self.values[i])) \div 2,
              bottom(chart_area) - 2, self.values[i], i)>>
    ELSE <<>>

\* The value of bar i
BarChart_value(self, chart_area, i) ==
    IF self.data[i].value # 0 /\ width(self.values[i]) < self.bar_width
    THEN <<set_string("BarChart", "value",
              left(chart_area) + (i - 1) * (self.bar_width + self.bar_gap)
                + (self.bar_width - width(self.values[i])) \div 2,
              bottom(chart_area) - 2, self.values[i], i)>>
    ELSE <<>>

\* The label of bar i
BarChart_label(self, chart_area, i) ==
    <<set_stringn("BarChart", "label",
         left(chart_area) + (i - 1) * (self.bar_width + self.bar_gap),
         bottom(chart_area) - 1, self.data[i].label, self.bar_width, i)>>

\* The loop over the values and labels, up to bar n
BarChart_labels(self, chart_area, n) ==
    Concat([i \in 1 .. n |->
              BarChart_value(self, chart_area, i) \o BarChart_label(self, chart_area, i)])

\* The bars whose cached value "&self.values[i]" does not exist
NoValue(self, max_index) ==
    {i \in 1 .. max_index : self.data[i].value # 0 /\ i > Len(self.values)}

MinOf(S) == CHOOSE m \in S : \A n \in S : m <= n

\* BarChart::render
BarChart_render(self, a) ==
    LET head == <<set_style("BarChart", a)>> \o block_calls(self.block, a)
        chart_area == working_area(self.block, a)
    IN  IF chart_area.height < 2
        THEN Rendered(head, chart_area, 0, "none")
        ELSE IF self.bar_width + self.bar_gap = 0
        THEN Rendered(head, chart_area, 0, "attempt to divide by zero")
        ELSE LET max_index == BarChart_max_index(self, chart_area)
                 bars == BarChart_bars(self, chart_area, max_index)
             IN  IF NoValue(self, max_index) # {}
                 THEN Rendered(head \o bars
                                 \o BarChart_labels(self, chart_area,
                                                    MinOf(NoValue(self, max_index)) - 1),
                               chart_area, max_index, "index out of bounds")
                 ELSE Rendered(head \o bars
                                 \o BarChart_labels(self, chart_area, max_index),
                               chart_area, max_index, "none")

(***************************************************************************)
(* Sparkline                                                               *)
(***************************************************************************)
\* Sparkline::default()
SparklineDefault == [kind |-> "Sparkline", block |-> None, data |-> <<>>, max |-> None]

\* "let max = match self.max { ... }"
Sparkline_max(self) ==
    IF is_some(self.max) THEN self.max.v ELSE MaxValue(self.data, 1)

\* "let max_index = min(spark_area.width, data.len())", with a bug: every
\* point is drawn
Sparkline_max_index_all(self, spark_area) == Len(self.data)

Sparkline_max_index(self, spark_area) == Min(spark_area.width, Len(self.data))

\* The height of point i in eighths
Sparkline_scaled(self, spark_area, i) ==
    IF Sparkline_max(self) # 0
    THEN (self.data[i] * spark_area.height * 8) \div Sparkline_max(self)
    ELSE 0

\* The painting loop: rows from the bottom up to the top
Sparkline_points(self, spark_area, max_index) ==
    Concat([r \in 1 .. spark_area.height |->
      LET j == spark_area.height - r
      IN  [i \in 1 .. max_index |->
             get_mut("Sparkline", "bar", left(spark_area) + (i - 1),
                     top(spark_area) + j,
                     symbol(Remaining(Sparkline_scaled(self, spark_area, i), r - 1)),
                     i)]])

\* Sparkline::render
Sparkline_render(self, a) ==
    LET head == block_calls(self.block, a)
        spark_area == working_area(self.block, a)
    IN  IF spark_area.height < 1
        THEN Rendered(head, spark_area, 0, "none")
        ELSE LET max_index == Sparkline_max_index(self, spark_area)
             IN  Rendered(head \o Sparkline_points(self, spark_area, max_index),
                          spark_area, max_index, "none")

(***************************************************************************)
(* The state machine.  One widget is constructed and then configured and   *)
(* rendered in any order.  Each render call gets an empty grid; buf and    *)
(* calls hold that call's grid and grid calls until the widget is          *)
(* reconfigured for the next frame.  A fault (a panic) ends the program.   *)
(***************************************************************************)
Areas ==
    {Rect(x, y, w, h) : x \in 0 .. MaxOrigin, y \in 0 .. MaxOrigin,
                        w \in 0 .. MaxWidth, h \in 0 .. MaxHeight}

\* The areas handed to the charts' render: those away from the grid's origin
ChartAreas == {a \in Areas : a.x = MaxOrigin /\ a.y = MaxOrigin}

\* The titles drawn by the model
Titles == {<<"T", "i">>}

Blocks == {Block(t, bs) : t \in {None} \cup {Some(x) : x \in Titles}, bs \in SUBSET ALL}

\* The blocks attached to the charts: a title without borders, and all
\* borders without a title
ChartBlocks == {b \in Blocks : is_some(b.title) = (b.borders = {}) /\ b.borders \in {{}, ALL}}

\* The rectangles handed to inner(): at both ends of the u16 range
EdgeCoords == {0} \cup (U16Max - MaxEdge .. U16Max)

EdgeSides == (0 .. MaxEdge + 1) \cup {U16Max}

InnerRects ==
    {Rect(x, y, w, h) : x \in EdgeCoords, y \in EdgeCoords,
                        w \in EdgeSides, h \in EdgeSides}

\* Buffer::empty
EmptyBuffer == [cell \in Grid |-> Blank]

NoRect == Rect(0, 0, 0, 0)

\* No render call yet on this frame
NoRender ==
    [op |-> "new", area |-> NoRect, block |-> None, working |-> NoRect,
     max_index |-> 0, fault |-> "none"]

NewFrame == buf' = EmptyBuffer /\ calls' = <<>> /\ last' = NoRender

Running == last.fault = "none"

\* The calls up to the first one that faults
Cut(cs) ==
    LET bad == {k \in 1 .. Len(cs) : OutOfGrid(cs[k])}
    IN  IF bad = {} THEN cs ELSE SubSeq(cs, 1, MinOf(bad))

FaultOf(cs, fault) ==
    IF \E k \in 1 .. Len(cs) : OutOfGrid(cs[k]) THEN "index outside of buffer" ELSE fault

\* Block::default() as a widget of its own
BlockWidget == [kind |-> "Block", title |-> None, borders |-> {}]

Init ==
    /\ widget \in {BlockWidget, BarChartDefault, SparklineDefault}
    /\ buf = EmptyBuffer
    /\ calls = <<>>
    /\ last = NoRender
    /\ paints = 0

\* Block::title, Block::retitle
Block_title(t) ==
    /\ Running /\ widget.kind = "Block"
    /\ widget' = [widget EXCEPT !.title = Some(t)]
    /\ NewFrame /\ UNCHANGED paints

\* Block::untitle
Block_untitle ==
    /\ Running /\ widget.kind = "Block"
    /\ widget' = [widget EXCEPT !.title = None]
    /\ NewFrame /\ UNCHANGED paints

\* Block::borders, Block::set_borders
Block_borders(flag) ==
    /\ Running /\ widget.kind = "Block"
    /\ widget' = [widget EXCEPT !.borders = flag]
    /\ NewFrame /\ UNCHANGED paints

\* Block::render as a Widget
Block_Render(a) ==
    /\ Running /\ widget.kind = "Block"
    /\ calls' = Cut(Block_render(widget, a))
    /\ buf' = BufferAfter(calls')
    /\ last' = [op |-> "render", area |-> a, block |-> None, working |-> a,
                max_index |-> 0, fault |-> FaultOf(Block_render(widget, a), "none")]
    /\ UNCHANGED <<widget, paints>>

\* Block::inner
Block_Inner(a) ==
    /\ Running /\ widget.kind = "Block"
    /\ last' = [op |-> "inner", area |-> a, block |-> None, working |-> inner(widget, a),
                max_index |-> 0, fault |-> "none"]
    /\ UNCHANGED <<widget, buf, calls, paints>>

\* "self.block.take()" leaves None behind; with a bug: the block stays
take_keeps(block) == block

take(block) == None

\* BarChart::block, Sparkline::block
Chart_block(b) ==
    /\ Running /\ widget.kind \in {"BarChart", "Sparkline"}
    /\ widget' = [widget EXCEPT !.block = Some(b)]
    /\ paints' = 0
    /\ NewFrame

\* BarChart::max, Sparkline::max
Chart_max(m) ==
    /\ Running /\ widget.kind \in {"BarChart", "Sparkline"}
    /\ widget' = [widget EXCEPT !.max = Some(m)]
    /\ NewFrame /\ UNCHANGED paints

\* BarChart::data, BarChart::set_data
BarChart_data(data) ==
    /\ Running /\ widget.kind = "BarChart"
    /\ widget' = set_data(widget, data)
    /\ NewFrame /\ UNCHANGED paints

\* BarChart::bar_width
BarChart_bar_width(w) ==
    /\ Running /\ widget.kind = "BarChart"
    /\ widget' = [widget EXCEPT !.bar_width = w]
    /\ NewFrame /\ UNCHANGED paints

\* BarChart::bar_gap
BarChart_bar_gap(gap) ==
    /\ Running /\ widget.kind = "BarChart"
    /\ widget' = [widget EXCEPT !.bar_gap = gap]
    /\ NewFrame /\ UNCHANGED paints

\* Sparkline::data
Sparkline_data(data) ==
    /\ Running /\ widget.kind = "Sparkline"
    /\ widget' = [widget EXCEPT !.data = data]
    /\ NewFrame /\ UNCHANGED paints

\* A render call of a chart, given what its render computes
Chart_Render(a, r) ==
    /\ widget' = [widget EXCEPT !.block = take(widget.block)]
    /\ calls' = Cut(r.calls)
    /\ buf' = BufferAfter(calls')
    /\ last' = [op |-> "render", area |-> a, block |-> widget.block,
                working |-> r.working, max_index |-> r.max_index,
                fault |-> FaultOf(r.calls, r.fault)]
    /\ paints' = paints + (IF is_some(widget.block) THEN 1 ELSE 0)

\* BarChart::render as a Widget
BarChart_Render(a) ==
    /\ Running /\ widget.kind = "BarChart"
    /\ Chart_Render(a, BarChart_render(widget, a))

\* Sparkline::render as a Widget
Sparkline_Render(a) ==
    /\ Running /\ widget.kind = "Sparkline"
    /\ Chart_Render(a, Sparkline_render(widget, a))

Next ==
    \/ \E t \in Titles : Block_title(t)
    \/ Block_untitle
    \/ \E flag \in SUBSET ALL : Block_borders(flag)
    \/ \E a \in Areas : Block_Render(a)
    \/ \E b \in ChartBlocks : Chart_block(b)
    \/ \E m \in Maxes : Chart_max(m)
    \/ \E data \in BarData : BarChart_data(data)
    \/ \E w \in 0 .. MaxBarWidth : BarChart_bar_width(w)
    \/ \E gap \in 0 .. MaxBarGap : BarChart_bar_gap(gap)
    \/ \E data \in SparkData : Sparkline_data(data)
    \/ \E a \in ChartAreas : BarChart_Render(a)
    \/ \E a \in ChartAreas : Sparkline_Render(a)

Spec == Init /\ [][Next]_vars

\* Block::inner on rectangles at both ends of the u16 range
InitInner ==
    /\ widget \in {[kind |-> "Block", title |-> b.title, borders |-> b.borders] :
                     b \in Blocks}
    /\ buf = EmptyBuffer
    /\ calls = <<>>
    /\ last = NoRender
    /\ paints = 0

NextInner == \E a \in InnerRects : Block_Inner(a)

SpecInner == InitInner /\ [][NextInner]_vars

(***************************************************************************)
(* Block::inner                                                            *)
(***************************************************************************)
\* C1: for every rectangle, border set and title, Block::inner(area) lies
\* inside area: its origin is not left of or above area's, its right and
\* bottom edges (as integers, x + width and y + height) do not exceed area's,
\* and its width and height are u16 values no larger than area's (no
\* subtraction underflowed).
C1_InnerInsideArea ==
    last.op = "inner" =>
        LET a == last.area
            i == last.working
        IN  /\ i.x >= a.x /\ i.y >= a.y
            /\ i.x + i.width <= a.x + a.width
            /\ i.y + i.height <= a.y + a.height
            /\ i.width \in 0 .. a.width
            /\ i.height \in 0 .. a.height
            /\ i.x <= U16Max /\ i.y <= U16Max

\* A degenerate rectangle (width and height 0) at the top of the u16 range,
\* with all borders and a title, has gone through inner
C1_Witness ==
    /\ last.op = "inner"
    /\ widget.borders = ALL /\ is_some(widget.title)
    /\ last.area = Rect(U16Max, U16Max, 0, 0)
    /\ last.working = last.area

\* The reference of C2, in u16 arithmetic (a sum saturates at u16::MAX, as
\* saturating_add and Rect::right do; a difference is floored at 0)
InnerReference(b, a) ==
    LET l == IF LEFT \in b.borders THEN 1 ELSE 0
        r == IF RIGHT \in b.borders THEN 1 ELSE 0
        t == IF TOP \in b.borders \/ b.title # None THEN 1 ELSE 0
        d == IF BOTTOM \in b.borders THEN 1 ELSE 0
        floor0(n) == IF n < 0 THEN 0 ELSE n
        u16(n) == IF n > U16Max THEN U16Max ELSE n
    IN  [x |-> IF l = 1 THEN Min(u16(a.x + 1), u16(a.x + a.width)) ELSE a.x,
         y |-> IF t = 1 THEN Min(u16(a.y + 1), u16(a.y + a.height)) ELSE a.y,
         width |-> floor0(floor0(a.width - l) - r),
         height |-> floor0(floor0(a.height - t) - d)]

\* C2: Block::inner(area) equals the reference: x' = min(x+1, x+width) if
\* LEFT else x; y' = min(y+1, y+height) if TOP or a title is set, else y;
\* width' = width less 1 for LEFT and less 1 for RIGHT, each floored at 0;
\* height' = height less 1 for TOP-or-title and less 1 for BOTTOM, each
\* floored at 0.  A title without a TOP border reserves a row, and without
\* borders and title the rectangle comes back unchanged.
C2_InnerIsReference ==
    last.op = "inner" =>
        /\ last.working = InnerReference(widget, last.area)
        /\ (widget.borders = {} /\ widget.title = None => last.working = last.area)
        /\ (is_some(widget.title) /\ last.area.height >= 1 /\ last.area.y < U16Max
              => last.working.y = last.area.y + 1)

\* A title without a TOP border has reserved the first row
C2_Witness ==
    /\ last.op = "inner"
    /\ is_some(widget.title) /\ widget.borders = {LEFT}
    /\ last.area = Rect(0, 0, 2, 2)
    /\ last.working = Rect(1, 1, 1, 1)

(***************************************************************************)
(* BarChart::render and Sparkline::render                                  *)
(***************************************************************************)
IsChart == widget.kind \in {"BarChart", "Sparkline"}

\* A render call of a chart has returned or faulted (the widget's data, max,
\* bar_width and bar_gap are still those the call saw)
ChartRendered(kind) == last.op = "render" /\ widget.kind = kind

\* The calls of the last render made by who for what
CallsFor(who, whats) ==
    {k \in 1 .. Len(calls) : calls[k].who = who /\ calls[k].what \in whats}

\* The values of the widget's data
DataValues ==
    IF widget.kind = "BarChart"
    THEN [i \in 1 .. Len(widget.data) |-> widget.data[i].value]
    ELSE widget.data

AllZero == \A i \in 1 .. Len(DataValues) : DataValues[i] = 0

\* C3: with bar_width + bar_gap = 0, BarChart::render on a working area of
\* height >= 2 completes without a fault, renders zero bars and writes no bar
\* glyph, value text or label.
C3_ZeroStrideRendersNothing ==
    (/\ ChartRendered("BarChart")
     /\ widget.bar_width + widget.bar_gap = 0
     /\ last.working.height >= 2)
    => /\ last.fault = "none"
       /\ last.max_index = 0
       /\ CallsFor("BarChart", {"bar", "value", "label"}) = {}

\* The cases of C4: max explicitly 0, or max unset and every value 0
ZeroMax == widget.max = Some(0) \/ (widget.max = None /\ AllZero)

\* C4 as claimed: in those cases BarChart::render and Sparkline::render
\* complete without fault, every glyph they paint is the empty one and no
\* value text is written.
C4_ZeroMaxAllEmpty ==
    (last.op = "render" /\ IsChart /\ ZeroMax)
    => /\ last.fault = "none"
       /\ \A k \in CallsFor(widget.kind, {"bar"}) : calls[k].text = <<"empty">>
       /\ CallsFor(widget.kind, {"value"}) = {}

\* C4 as amended: in those cases Sparkline::render completes without fault
\* and paints only the empty glyph.  BarChart::render faults only by the
\* division by bar_width + bar_gap = 0 of C3; with max unset and every value 0
\* it paints only the empty glyph and writes no value text; with max
\* explicitly 0 its divisor is max(0, 1) = 1, so a bar of value 0 is painted
\* with the empty glyph only and a bar of a non-zero value with the full glyph
\* only, and the value text of the latter is written when it fits.
C4_ZeroMaxRender ==
    (last.op = "render" /\ IsChart /\ ZeroMax)
    => /\ widget.kind = "Sparkline"
            => /\ last.fault = "none"
               /\ \A k \in CallsFor("Sparkline", {"bar"}) : calls[k].text = <<"empty">>
       /\ widget.kind = "BarChart"
            => /\ last.fault # "none"
                    => /\ widget.bar_width + widget.bar_gap = 0
                       /\ last.working.height >= 2
                       /\ CallsFor("BarChart", {"bar", "value", "label"}) = {}
               /\ \A k \in CallsFor("BarChart", {"bar"}) :
                    calls[k].text =
                      IF DataValues[calls[k].bar] = 0 THEN <<"empty">> ELSE <<"full">>
               /\ \A k \in CallsFor("BarChart", {"value"}) :
                    DataValues[calls[k].bar] # 0
               /\ AllZero => CallsFor("BarChart", {"value"}) = {}

\* A BarChart with max explicitly 0 has painted a bar of a non-zero value
\* with the full glyph, and one of value 0 with the empty glyph
C4_Witness ==
    /\ ChartRendered("BarChart") /\ widget.max = Some(0) /\ last.fault = "none"
    /\ \E k \in CallsFor("BarChart", {"bar"}) :
         DataValues[calls[k].bar] # 0 /\ calls[k].text = <<"full">>
    /\ \E k \in CallsFor("BarChart", {"bar"}) :
         DataValues[calls[k].bar] = 0 /\ calls[k].text = <<"empty">>

\* C5: every coordinate a render call passes to the grid in a cell write, a
\* string write or a title write lies inside the rectangle handed to render.
C5_CallsInsideArea ==
    last.op = "render" =>
        \A k \in 1 .. Len(calls) :
            calls[k].op # "set_style" =>
                /\ calls[k].x >= last.area.x
                /\ calls[k].x < last.area.x + last.area.width
                /\ calls[k].y >= last.area.y
                /\ calls[k].y < last.area.y + last.area.height

\* The rows a chart paints bars in: all but the label row for BarChart
BarRows == IF widget.kind = "BarChart" THEN last.working.height - 1 ELSE last.working.height

\* The scaled height of bar i as C6 gives it: value * rows * 8 / divisor, the
\* divisor being max(1, max) for BarChart and max for Sparkline (0 when the
\* latter is 0); max is the explicit one or the largest value of the data
ScaledHeight(i) ==
    LET m == IF is_some(widget.max) THEN widget.max.v
             ELSE IF Len(DataValues) = 0 THEN 0
             ELSE MaxOf({DataValues[n] : n \in 1 .. Len(DataValues)})
        divisor == IF widget.kind = "BarChart" /\ m = 0 THEN 1 ELSE m
    IN  IF divisor = 0 THEN 0 ELSE (DataValues[i] * BarRows * 8) \div divisor

RECURSIVE SumLevels(_)
SumLevels(ks) ==
    IF ks = {} THEN 0
    ELSE LET k == CHOOSE n \in ks : TRUE
         IN  LevelOf(calls[k].text[1]) + SumLevels(ks \ {k})

\* The bar glyphs written in column x for bar i
ColumnOf(i, x) ==
    {k \in CallsFor(widget.kind, {"bar"}) : calls[k].bar = i /\ calls[k].x = x}

\* The columns bar i was painted in
ColumnsOf(i) ==
    {calls[k].x : k \in {n \in CallsFor(widget.kind, {"bar"}) : calls[n].bar = i}}

Abs(n) == IF n < 0 THEN -n ELSE n

\* C6 as claimed: in every column of every rendered bar the fill levels of
\* the glyphs written sum up to the bar's scaled height, to within one eighth.
C6_LevelsSumToScaled ==
    (last.op = "render" /\ IsChart /\ last.fault = "none")
    => \A i \in 1 .. last.max_index : \A x \in ColumnsOf(i) :
          Abs(SumLevels(ColumnOf(i, x)) - ScaledHeight(i)) <= 1

\* C6 as amended: in every column of every rendered bar the fill levels of
\* the glyphs written sum up to exactly min(scaled height, 8 * rows): the
\* scaled height itself when it fits the rows, and the full 8 * rows when an
\* explicit max smaller than the value (or BarChart's divisor 1 for max 0)
\* scales the bar beyond them.
C6_LevelsSumToCappedScaled ==
    (last.op = "render" /\ IsChart /\ last.fault = "none")
    => \A i \in 1 .. last.max_index :
        /\ Cardinality(ColumnsOf(i))
             = (IF widget.kind = "BarChart" THEN widget.bar_width ELSE 1)
        /\ \A x \in ColumnsOf(i) :
          /\ Cardinality(ColumnOf(i, x)) = BarRows
          /\ {calls[k].y : k \in ColumnOf(i, x)}
               = last.working.y .. last.working.y + BarRows - 1
          /\ SumLevels(ColumnOf(i, x)) = Min(ScaledHeight(i), 8 * BarRows)

\* A Sparkline with max 5 has painted the value 10 over two rows: 16 eighths
\* for a scaled height of 32; and the value 3 exactly: 9 eighths
C6_Witness ==
    /\ ChartRendered("Sparkline") /\ widget.max = Some(5)
    /\ last.working.height = 2 /\ last.max_index = 2
    /\ widget.data = <<10, 3>>
    /\ ScaledHeight(1) = 32 /\ ScaledHeight(2) = 9
    /\ \A x \in ColumnsOf(1) : SumLevels(ColumnOf(1, x)) = 16
    /\ \A x \in ColumnsOf(2) : SumLevels(ColumnOf(2, x)) = 9
    /\ ColumnsOf(1) # {} /\ ColumnsOf(2) # {}

\* The k-th call among those of the set ks, in the order they were made
RECURSIVE Nth(_, _)
Nth(ks, k) == IF k = 1 THEN MinOf(ks) ELSE Nth(ks \ {MinOf(ks)}, k - 1)

\* C7: with a working height >= 2 and bar_width + bar_gap > 0, BarChart
\* renders min(floor(working_width / (bar_width + bar_gap)), data.len())
\* bars: the first that many entries in their order, bar i (from 0) starting
\* at column left + i * (bar_width + bar_gap); later entries cause no write.
C7_BarCount ==
    (/\ ChartRendered("BarChart")
     /\ last.working.height >= 2
     /\ widget.bar_width + widget.bar_gap > 0)
    => LET stride == widget.bar_width + widget.bar_gap
           n == Min(last.working.width \div stride, Len(widget.data))
           labels == CallsFor("BarChart", {"label"})
           start(i) == last.working.x + (i - 1) * stride
       IN  /\ last.fault = "none"
           /\ last.max_index = n
           /\ Cardinality(labels) = n
           /\ \A i \in 1 .. n :
                LET c == calls[Nth(labels, i)]
                IN  /\ c.bar = i
                    /\ c.x = start(i)
                    /\ c.text = widget.data[i].label
                    /\ ColumnsOf(i) = start(i) .. start(i) + widget.bar_width - 1
           /\ \A k \in CallsFor("BarChart", {"bar", "value", "label"}) :
                /\ calls[k].bar \in 1 .. n
                /\ calls[k].x \in start(calls[k].bar) ..
                                  start(calls[k].bar) + Max(widget.bar_width, 1) - 1

\* Two entries, room for one bar: the first is rendered, the second is not
C7_Witness ==
    /\ ChartRendered("BarChart") /\ last.fault = "none"
    /\ Len(widget.data) = 2 /\ widget.data[1] # widget.data[2]
    /\ widget.bar_width = 2 /\ widget.bar_gap = 1
    /\ last.working.width = 4 /\ last.working.height = 3
    /\ last.max_index = 1
    /\ \E k \in CallsFor("BarChart", {"label"}) : calls[k].text = widget.data[1].label
    /\ \A k \in CallsFor("BarChart", {"label"}) : calls[k].text # widget.data[2].label

(***************************************************************************)
(* Block::render: corners                                                  *)
(***************************************************************************)
Corners == {top_left, top_right, bottom_left, bottom_right}

\* The two edge flags adjacent to a corner
Adjacent(corner) ==
    CASE corner = top_left -> {LEFT, TOP}
      [] corner = top_right -> {RIGHT, TOP}
      [] corner = bottom_left -> {LEFT, BOTTOM}
      [] corner = bottom_right -> {RIGHT, BOTTOM}

\* The position of a corner of a rectangle of non-zero area
PositionOf(corner, a) ==
    <<IF LEFT \in Adjacent(corner) THEN a.x ELSE a.x + a.width - 1,
      IF TOP \in Adjacent(corner) THEN a.y ELSE a.y + a.height - 1>>

\* The line glyph of an edge
LineOf(flag) == IF flag \in {LEFT, RIGHT} THEN vertical ELSE horizontal

BlockRendered == last.op = "render" /\ widget.kind = "Block" /\ area(last.area) # 0

\* Every corner glyph written is the glyph of a corner whose two adjacent
\* flags are both set
CornerGlyphsNeedBothFlags ==
    \A k \in CallsFor("Block", {"corner"}) :
        /\ calls[k].text[1] \in Corners
        /\ Adjacent(calls[k].text[1]) \subseteq widget.borders

\* C8 as claimed: a corner glyph is written at a corner position only when
\* both flags adjacent to that corner are set; at a corner position with
\* fewer than two adjacent flags set the cell ends up holding the line glyph
\* of the enabled edge or untouched, never a corner glyph.
C8_CornersNeedBothFlags ==
    BlockRendered =>
        /\ CornerGlyphsNeedBothFlags
        /\ \A corner \in Corners :
             ~(Adjacent(corner) \subseteq widget.borders) =>
                buf[PositionOf(corner, last.area)] \in
                    {LineOf(f) : f \in Adjacent(corner) \cap widget.borders}
                      \cup {Blank}

\* The characters of the title
TitleChars ==
    IF is_some(widget.title)
    THEN {widget.title.v[i] : i \in 1 .. Len(widget.title.v)} ELSE {}

\* The corners of a rectangle that lie at a position (one corner, unless the
\* rectangle is 1 wide or 1 high)
CornersAt(pos, a) == {corner \in Corners : PositionOf(corner, a) = pos}

\* C8 as amended: a corner glyph is written only when both flags adjacent to
\* its corner are set (with no two adjacent flags set, as for {RIGHT} alone,
\* none is written anywhere), and at that corner's position.  A corner
\* position with fewer than two adjacent flags set ends up holding the line
\* glyph of an enabled edge through it, or untouched when there is none, or
\* title text (top row, title set), never a corner glyph, unless it is also
\* the position of another corner whose two flags are both set, which happens
\* only in an area 1 wide or 1 high: then it holds a corner glyph.
C8_CornersNeedBothFlagsApart ==
    BlockRendered =>
        /\ CornerGlyphsNeedBothFlags
        /\ \A k \in CallsFor("Block", {"corner"}) :
             <<calls[k].x, calls[k].y>> = PositionOf(calls[k].text[1], last.area)
        /\ \A corner \in Corners :
             ~(Adjacent(corner) \subseteq widget.borders) =>
                LET pos == PositionOf(corner, last.area)
                    cell == buf[pos]
                    through == UNION {Adjacent(c) : c \in CornersAt(pos, last.area)}
                    set == through \cap widget.borders
                    shared == {c \in CornersAt(pos, last.area) :
                                 Adjacent(c) \subseteq widget.borders}
                IN  /\ (shared # {}) => (cell \in shared)
                    /\ (shared = {}) =>
                          /\ cell \notin Corners
                          /\ \/ cell \in {LineOf(f) : f \in set}
                             \/ set = {} /\ cell = Blank
                             \/ pos[2] = last.area.y /\ cell \in TitleChars
                    /\ (last.area.width >= 2 /\ last.area.height >= 2) =>
                          /\ shared = {}
                          /\ through = Adjacent(corner)
        /\ (\A corner \in Corners : ~(Adjacent(corner) \subseteq widget.borders))
             => \A cell \in Grid : buf[cell] \notin Corners

\* A lone RIGHT border on a 2 x 2 area: the vertical glyph at both right
\* corner positions, the left ones untouched
C8_Witness ==
    /\ BlockRendered /\ widget.borders = {RIGHT} /\ widget.title = None
    /\ last.area = Rect(1, 1, 2, 2)
    /\ buf[<<2, 1>>] = vertical /\ buf[<<2, 2>>] = vertical
    /\ buf[<<1, 1>>] = Blank /\ buf[<<1, 2>>] = Blank

(***************************************************************************)
(* BarChart::render: values and labels                                     *)
(***************************************************************************)
\* C9: for every rendered bar the cached value string is written, on the row
\* directly above the label row, if and only if the bar's value is non-zero
\* and the string's display width is strictly less than bar_width; the label
\* is written on the bottom row for every rendered bar either way.
C9_ValueIffFits ==
    (ChartRendered("BarChart") /\ last.fault = "none")
    => \A i \in 1 .. last.max_index :
          LET vs == {k \in CallsFor("BarChart", {"value"}) : calls[k].bar = i}
              ls == {k \in CallsFor("BarChart", {"label"}) : calls[k].bar = i}
          IN  /\ (vs # {}) <=> (/\ widget.data[i].value # 0
                                /\ Len(widget.values[i]) < widget.bar_width)
              /\ \A k \in vs : /\ calls[k].text = widget.values[i]
                               /\ calls[k].y = last.working.y + last.working.height - 2
              /\ Cardinality(vs) <= 1
              /\ Cardinality(ls) = 1
              /\ \A k \in ls : /\ calls[k].text = widget.data[i].label
                               /\ calls[k].y = last.working.y + last.working.height - 1

\* Two bars of width 2: the value "3" is written, the value "10" is not, and
\* both labels are
C9_Witness ==
    /\ ChartRendered("BarChart") /\ last.fault = "none"
    /\ widget.bar_width = 2 /\ last.max_index = 2
    /\ widget.data[1].value = 3 /\ widget.data[2].value = 10
    /\ \E k \in CallsFor("BarChart", {"value"}) :
         calls[k].bar = 1 /\ calls[k].text = <<"3">>
    /\ \A k \in CallsFor("BarChart", {"value"}) : calls[k].bar # 2
    /\ Cardinality(CallsFor("BarChart", {"label"})) = 2

(***************************************************************************)
(* The block of a chart                                                    *)
(***************************************************************************)
\* C10: a render call of a chart with a block attached paints the block and
\* draws the data inside block.inner(area), and leaves the block field
\* empty; a render call without a block paints no border or title and works
\* on the whole area; so a block is painted at most once unless block() is
\* called again.
C10_BlockPaintedOnce ==
    (last.op = "render" /\ IsChart)
    => /\ widget.block = None
       /\ paints <= 1
       /\ is_some(last.block)
            => /\ last.working = inner(last.block.v, last.area)
               /\ [k \in 1 .. Len(Block_render(last.block.v, last.area)) |->
                     calls[k + (IF widget.kind = "BarChart" THEN 1 ELSE 0)]]
                    = Block_render(last.block.v, last.area)
               /\ paints = 1
       /\ last.block = None
            => /\ last.working = last.area
               /\ CallsFor("Block", {LEFT, TOP, RIGHT, BOTTOM, "corner", "title", "style"}) = {}
       /\ \A k \in CallsFor(widget.kind, {"bar", "value", "label"}) :
            /\ calls[k].x >= last.working.x
            /\ calls[k].x < last.working.x + last.working.width
            /\ calls[k].y >= last.working.y
            /\ calls[k].y < last.working.y + last.working.height

\* A second render call after one that painted the block: the block was
\* painted once, and this call draws its bars from the area's own origin
C10_Witness ==
    /\ last.op = "render" /\ IsChart
    /\ paints = 1 /\ last.block = None /\ widget.block = None
    /\ last.working = last.area
    /\ \E k \in CallsFor(widget.kind, {"bar"}) :
         calls[k].x = last.area.x /\ calls[k].y = last.area.y

(***************************************************************************)
(* BarChart: the cache of formatted values                                 *)
(***************************************************************************)
\* The digit a character stands for
DigitOf(ch) == (CHOOSE d \in 1 .. 10 : DigitChar[d] = ch) - 1

\* The number a string of decimal digits denotes
RECURSIVE ParseDecimal(_)
ParseDecimal(string) ==
    IF string = <<>> THEN 0
    ELSE 10 * ParseDecimal(SubSeq(string, 1, Len(string) - 1))
           + DigitOf(string[Len(string)])

\* string is the decimal string of v: digits only, no leading zero (but "0"
\* itself), denoting v
IsDecimalOf(string, v) ==
    /\ Len(string) >= 1
    /\ \A n \in 1 .. Len(string) : \E d \in 1 .. 10 : DigitChar[d] = string[n]
    /\ Len(string) > 1 => string[1] # "0"
    /\ ParseDecimal(string) = v

\* C11: after any sequence of BarChart builder calls and render calls the
\* cached values list has exactly data.len() entries and values[i] is the
\* decimal string of data[i].value; replacing the data leaves no entry of the
\* previous cache, so render never indexes values out of range and every
\* value text it writes is the decimal string of the current value of its bar.
C11_ValuesMatchData ==
    widget.kind = "BarChart" =>
        /\ Len(widget.values) = Len(widget.data)
        /\ \A i \in 1 .. Len(widget.data) :
             IsDecimalOf(widget.values[i], widget.data[i].value)
        /\ last.fault # "index out of bounds"
        /\ \A k \in CallsFor("BarChart", {"value"}) :
             /\ calls[k].bar \in 1 .. Len(widget.data)
             /\ IsDecimalOf(calls[k].text, widget.data[calls[k].bar].value)

\* Data of two entries, 10 and 3, have been set and rendered with bars 2
\* wide: the cache holds "10" and "3", and "3" was written for the second bar
C11_Witness ==
    /\ ChartRendered("BarChart") /\ last.fault = "none"
    /\ Len(widget.data) = 2
    /\ widget.data[1].value = 10 /\ widget.data[2].value = 3
    /\ widget.values = <<(<<"1", "0">>), (<<"3">>)>>
    /\ widget.bar_width = 2 /\ last.max_index = 2
    /\ \E k \in CallsFor("BarChart", {"value"}) :
         calls[k].bar = 2 /\ calls[k].text = <<"3">>

(***************************************************************************)
(* Sparkline::render: the points painted                                   *)
(***************************************************************************)
\* The cells a set of calls wrote to
WrittenBy(ks) == {<<calls[k].x, calls[k].y>> : k \in ks}

\* C12: with a working height >= 1 Sparkline paints exactly the first
\* min(working_width, data.len()) data points, point i (from 0) in column
\* left + i, each of them in every row of the working area from its top row
\* to its bottom row, one glyph per cell, and writes no cell in any other
\* column of the working area; with a working height of 0 it writes nothing
\* to the working area.
C12_PointsPainted ==
    ChartRendered("Sparkline") =>
        LET w == last.working
            n == Min(w.width, Len(widget.data))
            points == CallsFor("Sparkline", {"bar"})
        IN  /\ last.fault = "none"
            /\ w.height >= 1 =>
                 /\ last.max_index = n
                 /\ WrittenBy(points)
                      = (w.x .. w.x + n - 1) \X (w.y .. w.y + w.height - 1)
                 /\ Cardinality(points) = n * w.height
                 /\ \A k \in points : calls[k].bar = calls[k].x - w.x + 1
                 /\ \A i \in 1 .. n :
                      {calls[k].y : k \in {p \in points : calls[p].bar = i}}
                        = w.y .. w.y + w.height - 1
                 /\ \A cell \in Grid :
                      (/\ cell[1] \in w.x + n .. w.x + w.width - 1
                       /\ cell[2] \in w.y .. w.y + w.height - 1)
                      => /\ buf[cell] = Blank
                         /\ \A k \in 1 .. Len(calls) : cell \notin CellsOf(calls[k])
            /\ w.height = 0 => points = {}
            /\ \A k \in CallsFor("Sparkline", {"bar", "value", "label", "style"}) :
                 calls[k].what = "bar"

\* Two data points on a working area 1 wide and 2 high: the first point is
\* painted in both rows of the only column, the second is not painted
C12_Witness ==
    /\ ChartRendered("Sparkline")
    /\ Len(widget.data) = 2 /\ widget.data[1] = 10 /\ widget.data[2] = 3
    /\ last.working = Rect(MaxOrigin, MaxOrigin, 1, 2)
    /\ last.max_index = 1
    /\ WrittenBy(CallsFor("Sparkline", {"bar"}))
         = {<<MaxOrigin, MaxOrigin>>, <<MaxOrigin, MaxOrigin + 1>>}
    /\ \A k \in CallsFor("Sparkline", {"bar"}) : calls[k].bar = 1

(***************************************************************************)
(* BarChart::render: the glyphs of a bar                                   *)
(***************************************************************************)
Clamp(n, lo, hi) == Max(lo, Min(n, hi))

\* The max a BarChart resolves: the explicit one, or the largest value
ResolvedMax ==
    IF is_some(widget.max) THEN widget.max.v
    ELSE IF Len(DataValues) = 0 THEN 0
    ELSE MaxOf({DataValues[n] : n \in 1 .. Len(DataValues)})

\* The columns of bar i (from 1) and the bar row r counted from the row just
\* above the label row upward (from 0)
BarColumns(i) ==
    LET start == last.working.x + (i - 1) * (widget.bar_width + widget.bar_gap)
    IN  start .. start + widget.bar_width - 1

BarRowY(r) == last.working.y + last.working.height - 2 - r

\* The bar glyphs written for bar i at column x of bar row r
GlyphsAt(i, x, r) ==
    {k \in CallsFor("BarChart", {"bar"}) :
        calls[k].bar = i /\ calls[k].x = x /\ calls[k].y = BarRowY(r)}

\* Bar i is painted in its bar_width columns and the bar rows only, one glyph
\* per cell, the glyph of bar row r being that of level clamp(s - 8r, 0, 8)
ClampedLevels(i) ==
    LET s == ScaledHeight(i)
    IN  /\ ColumnsOf(i) = BarColumns(i)
        /\ \A k \in CallsFor("BarChart", {"bar"}) :
             calls[k].bar = i => calls[k].y \in BarRowY(BarRows - 1) .. BarRowY(0)
        /\ \A x \in BarColumns(i) : \A r \in 0 .. BarRows - 1 :
             /\ Cardinality(GlyphsAt(i, x, r)) = 1
             /\ \A k \in GlyphsAt(i, x, r) :
                  /\ calls[k].text = <<NINE_LEVELS[Clamp(s - 8 * r, 0, 8) + 1]>>
                  /\ buf[<<x, BarRowY(r)>>] \in
                       {calls[k].text[1]} \cup
                         (IF r = 0
                          THEN {widget.values[i][n] : n \in 1 .. Len(widget.values[i])}
                          ELSE {})

\* The bar rows of bar i painted with the full glyph, and with a partial one
FullRows(i) ==
    {r \in 0 .. BarRows - 1 :
        \A x \in BarColumns(i) : \A k \in GlyphsAt(i, x, r) : calls[k].text = <<"full">>}

PartialRows(i) ==
    {r \in 0 .. BarRows - 1 :
        \A x \in BarColumns(i) : \A k \in GlyphsAt(i, x, r) :
            LevelOf(calls[k].text[1]) \in 1 .. 7}

EmptyRows(i) ==
    {r \in 0 .. BarRows - 1 :
        \A x \in BarColumns(i) : \A k \in GlyphsAt(i, x, r) : calls[k].text = <<"empty">>}

\* The bars C13 is about: rendered, and at least one column wide
BarsPainted ==
    IF ChartRendered("BarChart") /\ last.fault = "none" /\ widget.bar_width >= 1
    THEN 1 .. last.max_index ELSE {}

\* C13 as claimed: for every rendered bar with scaled height s, bar row r
\* (from the row just above the label row upward) gets the glyph of level
\* clamp(s - 8r, 0, 8) across all bar_width columns, so the column is
\* floor(s/8) full-glyph rows at the bottom, then at most one partial-glyph
\* row (level s mod 8), then only empty-glyph rows; a bar whose value equals
\* the resolved max (>= 1) is full in all bar rows and a bar of value 0 is all
\* empty.
C13_FullRowsAreFloor ==
    \A i \in BarsPainted :
        LET s == ScaledHeight(i)
        IN  /\ ClampedLevels(i)
            /\ FullRows(i) = 0 .. (s \div 8) - 1
            /\ PartialRows(i) \subseteq {s \div 8}
            /\ EmptyRows(i) = (0 .. BarRows - 1) \ (FullRows(i) \cup PartialRows(i))
            /\ (DataValues[i] = ResolvedMax /\ ResolvedMax >= 1)
                 => FullRows(i) = 0 .. BarRows - 1
            /\ DataValues[i] = 0 => EmptyRows(i) = 0 .. BarRows - 1

\* C13 as amended: for every rendered bar with scaled height s, bar row r
\* gets the glyph of level clamp(s - 8r, 0, 8) across all bar_width columns,
\* so the column is min(floor(s/8), working_height - 1) full-glyph rows at the
\* bottom (all bar rows when an explicit max below the value, or the divisor 1
\* for max 0, scales the bar beyond them), then, if a row is left, at most one
\* partial-glyph row (row floor(s/8), level s mod 8), then only empty-glyph
\* rows; a bar whose value equals the resolved max (>= 1) is full in all bar
\* rows and a bar of value 0 is all empty.
C13_FullRowsAreCappedFloor ==
    \A i \in BarsPainted :
        LET s == ScaledHeight(i)
        IN  /\ ClampedLevels(i)
            /\ FullRows(i) = 0 .. Min(s \div 8, BarRows) - 1
            /\ PartialRows(i) \subseteq {s \div 8}
            /\ PartialRows(i) # {} <=> (s % 8 # 0 /\ s \div 8 < BarRows)
            /\ \A r \in PartialRows(i) : \A x \in BarColumns(i) :
                 \A k \in GlyphsAt(i, x, r) : LevelOf(calls[k].text[1]) = s % 8
            /\ EmptyRows(i) = (0 .. BarRows - 1) \ (FullRows(i) \cup PartialRows(i))
            /\ \A r \in EmptyRows(i) : r >= s \div 8
            /\ (DataValues[i] = ResolvedMax /\ ResolvedMax >= 1)
                 => FullRows(i) = 0 .. BarRows - 1
            /\ DataValues[i] = 0 => EmptyRows(i) = 0 .. BarRows - 1

\* Bars 2 wide over two bar rows with max 5: the value 3 (scaled height 9) is
\* a full row below a one-eighth row, and the value 10 (scaled height 32, four
\* rows' worth) is full in both rows
C13_Witness ==
    /\ BarsPainted = 1 .. 2
    /\ widget.max = Some(5) /\ widget.bar_width = 2 /\ BarRows = 2
    /\ DataValues = <<3, 10>>
    /\ ScaledHeight(1) = 9 /\ ScaledHeight(2) = 32
    /\ FullRows(1) = {0} /\ PartialRows(1) = {1}
    /\ \A x \in BarColumns(1) : \A k \in GlyphsAt(1, x, 1) :
         calls[k].text = <<"one_eighth">>
    /\ FullRows(2) = {0, 1}

====
